---- MODULE Spec2Model ----
(***************************************************************************)
(* One control connection of the FTP server: the read-parse-dispatch-      *)
(* respond loop of Connection::connect, the two dispatchers the sources    *)
(* hold (the monolithic Connection::execute_command of ftp/server.rs and   *)
(* the Command framework of ftp/command/), the session's data connection,  *)
(* the passive listeners and the detached accept tasks PASV spawns         *)
(* (Spec); the passive port through the 227 reply and a PORT argument      *)
(* (EncSpec); FTPServer::listen and the connection tasks it spawns         *)
(* (ServerSpec, ServerLive).                                               *)
(***************************************************************************)
EXTENDS Integers, Sequences, FiniteSets, TLC

\* Control lines one connection reads before the model stops reading.
MaxLines == 3

\* Length of the buffer Retr::run reads the file into (4096 in the source).
BufferLen == 2

\* Reply codes, StatusCode::code().
DataOpenTransfer == 125
FileStatusOk == 150
Ok == 200
ServiceClosingControlConn == 221
ClosingDataConn == 226
EnteringPassiveMode == 227
UserLoggedIn == 230
FileActionOk == 250
PathCreated == 257
UsernameOk == 331
FileActionPending == 350
CantOpenDataConn == 425
FileActionNotTaken == 450
SyntaxError == 500
CmdNotImplemented == 502
ServiceReadyUser == 220

VARIABLES
    dispatcher,       \* which dispatcher the build links: "execute_command" | "Command"
    pc,               \* control loop: "greet" "read" "dispatch" "exec" "respond" "closed" "crashed"
    hpc,              \* position inside a handler that suspends: "idle" "pasv_accept" "lock" "xfer"
    cmd,              \* the control line being handled
    result,           \* what the handler returned: Result<Option<StatusCode>>
    replied,          \* the control loop wrote the returned status of this line
    ctrl,             \* reply codes written on the control channel, in order
    nread,            \* control lines read so far
    data_connection,  \* the session's Option<Arc<Mutex<DataConnection>>>: 0 is None, else a socket id
    sock,             \* data sockets ever created: state and number of transfers that used each
    tasks,            \* passive listeners: awaited by the handler or by a spawned accept task
    session_lock,     \* holder of the Mutex guarding the session state: "none" | "ctrl"
    using,            \* the data socket the handler of this line locked for its transfer, 0 if none
    dcAbsent,         \* the handler of this line found data_connection to be None
    cause,            \* why the connection task ended: "" while it runs
    ctrlUp,           \* the peer still holds its end of the control socket
    cwd,              \* the session's current working directory
    atRead,           \* when the line being handled was read: the session's cwd, Len(ctrl)
    reply_path,       \* the path Pwd::run put in the PathCreated it returned for this line
    writer,           \* the write half of the control socket: "open" | "shutdown"
    source,           \* the file the RETR of this line opened: outcome of the open, content
    file,             \* the file the STOR of this line created: whether created, content
    enc,              \* a passive port on its way through the 227 reply and a PORT argument
    signal,           \* the operator's interrupt has been raised
    listening,        \* FTPServer::listen: "accepting" | "returned"
    actors,           \* the connection tasks add_connection spawned, by client
    tok,              \* an input line on its way through cmd_parser, a re-join and cmd_parser
    reply             \* a StatusCode on its way through code() and to_string()

\* What the control loop of one connection never touches.
aside == <<enc, signal, listening, actors, tok, reply>>

vars == <<dispatcher, pc, hpc, cmd, result, replied, ctrl, nread, data_connection,
          sock, tasks, session_lock, using, dcAbsent, cause, ctrlUp, cwd, atRead,
          reply_path, writer, source, file, enc, signal, listening, actors, tok, reply>>

----------------------------------------------------------------------------
\* Result<Option<StatusCode>>

NoResult == [kind |-> "none", code |-> 0]
OkNone == [kind |-> "Ok", code |-> 0]
OkSome(c) == [kind |-> "Ok", code |-> c]
Err == [kind |-> "Err", code |-> 0]

----------------------------------------------------------------------------
\* Control lines. kw is the first token, nargs the number of argument tokens,
\* wf whether the argument has the shape its handler parses (PORT: six u8
\* octets, REST: a u64), arg the path a CWD names.  kw = "" is the line with
\* no token.

Line(k, n, w) == [kw |-> k, nargs |-> n, wf |-> w, arg |-> ""]

CwdLine(path) == [kw |-> "CWD", nargs |-> 1, wf |-> TRUE, arg |-> path]

\* The directories that exist, and a path that names none.
Dirs == {"/", "/pub"}

NoSuchDir == "/nodir"

\* std::env::current_dir() of the server process; nothing in the sources
\* changes it.
ProcessDir == "/"

EmptyLine == Line("", 0, TRUE)

Lines ==
    { EmptyLine,
      Line("USER", 1, TRUE),
      Line("PASS", 1, TRUE),
      Line("PASV", 0, TRUE),
      Line("PORT", 1, TRUE), Line("PORT", 1, FALSE),
      Line("LIST", 0, TRUE),
      Line("MLSD", 0, TRUE),
      Line("RETR", 1, TRUE), Line("RETR", 0, TRUE),
      Line("STOR", 1, TRUE),
      Line("QUIT", 0, TRUE),
      Line("PWD", 0, TRUE),
      CwdLine("/pub"), CwdLine(NoSuchDir),
      Line("REST", 1, TRUE), Line("REST", 1, FALSE),
      Line("TYPE", 1, TRUE),
      Line("XYZZ", 0, TRUE) }

\* The keywords Command::try_from matches.
CommandKeywords ==
    {"USER", "PASS", "PASV", "STOR", "RETR", "PORT", "SYST", "FEAT", "PWD",
     "CWD", "REST", "TYPE", "LIST"}

\* The keywords execute_command has an arm for.
ExecuteCommandKeywords ==
    {"USER", "PASS", "SYST", "FEAT", "SIZE", "PASV", "TYPE", "LPRT", "PORT",
     "STOR", "RETR", "QUIT"}

\* Keywords of handlers that exist under ftp/command/ but have no arm in
\* Command::try_from.
UnlistedHandlerKeywords == {"MLSD", "QUIT"}

HandlerKeywords == CommandKeywords \cup UnlistedHandlerKeywords

DataBearing == {"LIST", "MLSD", "RETR", "STOR"}

\* <Handler>::try_from: the arity and shape check of each handler.
HandlerTryFrom(l) ==
    CASE l.kw \in {"USER", "STOR", "RETR", "PORT", "CWD", "TYPE"} -> l.nargs = 1
      [] l.kw = "PASS" -> l.nargs \in {0, 1}
      [] l.kw \in {"PASV", "SYST", "FEAT", "PWD", "QUIT"} -> l.nargs = 0
      [] l.kw = "REST" -> l.nargs = 1 /\ l.wf
      [] l.kw \in {"LIST", "MLSD"} -> TRUE
      [] OTHER -> FALSE

\* cmd_parser(input), unwrapped by the control loop: fails on a line with no token.
CmdParserOk(l) == l.kw # ""

----------------------------------------------------------------------------
\* Data sockets.

\* out: the bytes the server wrote on the socket; inp: the bytes the client
\* sent on it before closing its end.
NewSock == [st |-> "open", uses |-> 0, out |-> <<>>, inp |-> <<>>]

Live(s) == sock[s].st \in {"open", "shutdown", "broken"}

\* Sockets a spawned accept task holds and has not installed yet.
HeldByTask == { tasks[t].sock : t \in { u \in DOMAIN tasks : tasks[u].st = "accepted" } }

\* data_connection = Some(new): the previous Arc is dropped; the session held
\* the only reference, so the previous socket is closed.
ReleasePreviousLeak(sk, old) == sk

ReleasePrevious(sk, old) ==
    IF old # 0 THEN [sk EXCEPT ![old].st = "closed"] ELSE sk

\* PORT: TcpStream::connect(data_addr).await, then data_connection = Some(..)
\* of the connected socket, before the handler returns.
InstallConnectedLater(new) == data_connection

InstallConnected(new) == new

\* The greeting Connection::connect writes before its loop.
WriteGreetingSkipped(c) == c

WriteGreeting(c) == Append(c, ServiceReadyUser)

\* The loop's test that ends it after a handler returned Ok: cmd == "QUIT".
LoopEndsOnNever(res, l) == FALSE

LoopEndsOn(res, l) == res.kind = "Ok" /\ l.kw = "QUIT"

\* The loop's write of a returned status.
WriteResponseDropped(c, res) == c

WriteResponse(c, res) ==
    IF res.kind = "Ok" /\ res.code # 0 THEN Append(c, res.code) ELSE c

\* The status of execute_command's default arm.
DefaultArmSyntaxError == SyntaxError

DefaultArm == CmdNotImplemented

----------------------------------------------------------------------------
\* Files.

\* File::open(path) of a RETR: not attempted, failed, or a file of some content.
NoFile == [opened |-> "no", bytes |-> <<>>]

OpenFailed == [opened |-> "failed", bytes |-> <<>>]

Opened(content) == [opened |-> "ok", bytes |-> content]

\* File::create(path) of a STOR and what was written to the file.
NoUpload == [created |-> FALSE, bytes |-> <<>>]

Created(content) == [created |-> TRUE, bytes |-> content]

----------------------------------------------------------------------------
\* The port of a passive listener in the 227 reply and in a PORT argument.

\* u16::MAX, the largest port local_addr().port() returns.
MaxPort == 65535

\* data_port.div_rem(&256)
DivRem(port) == [high |-> port \div 256, low |-> port % 256]

\* {port_high} and {port_low} in the format string: the decimal digits of a u16.
RECURSIVE Decimal(_)
Decimal(n) == IF n < 10 THEN <<n>> ELSE Append(Decimal(n \div 10), n % 10)

\* e.parse::<u8>(): the value of the digits, or -1 for the Err that unwrap()
\* panics on (no digit, or a value above u8::MAX).
RECURSIVE DigitsValue(_)
DigitsValue(ds) ==
    IF ds = <<>> THEN 0 ELSE 10 * DigitsValue(SubSeq(ds, 1, Len(ds) - 1)) + ds[Len(ds)]

ParseU8(ds) ==
    IF ds = <<>> \/ Len(ds) > 3 \/ DigitsValue(ds) > 255 THEN -1 ELSE DigitsValue(ds)

\* a | b on unsigned integers
RECURSIVE BitOr(_, _)
BitOr(a, b) ==
    IF a = 0 THEN b
    ELSE IF b = 0 THEN a
    ELSE (IF a % 2 = 1 \/ b % 2 = 1 THEN 1 ELSE 0) + 2 * BitOr(a \div 2, b \div 2)

\* (address[4] as u16) << 8 | address[5] as u16
DecodeNoShift(a4, a5) == BitOr(a4, a5)

Decode(a4, a5) == BitOr((a4 * 256) % 65536, a5)

\* No listener bound.
NoPort == [step |-> "none", port |-> 0, high |-> 0, low |-> 0, text |-> <<>>,
           a4 |-> 0, a5 |-> 0, decoded |-> 0]

----------------------------------------------------------------------------
\* The line parser (parser.rs).  A string is a sequence of characters.

\* The characters of the lines parsed: two that are no whitespace, the space,
\* the tab, and the form feed, which char::is_whitespace counts as whitespace
\* and nom's multispace0 (space, tab, CR, LF) does not.
Alphabet == {"U", "a", "SP", "TAB", "FF"}

\* Longest line parsed.
MaxLineLen == 4

\* c.is_whitespace()
IsWhitespaceSpaceOnly(c) == c = "SP"

IsWhitespace(c) == c \in {"SP", "TAB", "FF"}

\* What multispace0 consumes.
IsMultispace(c) == c \in {"SP", "TAB"}

\* multispace0(input): the input after its leading spaces and tabs.
RECURSIVE Multispace0(_)
Multispace0(input) ==
    IF input # <<>> /\ IsMultispace(Head(input)) THEN Multispace0(Tail(input)) ELSE input

\* The longest prefix of characters that are no whitespace.
RECURSIVE TakeWhile(_)
TakeWhile(input) ==
    IF input = <<>> \/ IsWhitespace(Head(input))
      THEN <<>>
      ELSE <<Head(input)>> \o TakeWhile(Tail(input))

\* non_space: take_while1(|c| !c.is_whitespace()); an Err on no character.
NonSpace(input) ==
    LET t == TakeWhile(input)
    IN  [ok |-> t # <<>>, out |-> t, rest |-> SubSeq(input, Len(t) + 1, Len(input))]

\* cmd_param_parser: delimited(multispace0, non_space, multispace0)
CmdParamParser(input) ==
    LET r == NonSpace(Multispace0(input))
    IN  [ok |-> r.ok, out |-> r.out, rest |-> IF r.ok THEN Multispace0(r.rest) ELSE input]

\* cmd_arg_parser: many0(cmd_param_parser), the tokens up to the first Err.
RECURSIVE CmdArgParser(_)
CmdArgParser(input) ==
    LET r == CmdParamParser(input)
    IN  IF r.ok THEN <<r.out>> \o CmdArgParser(r.rest) ELSE <<>>

\* cmd_parser: tuple((cmd_name_parser, cmd_arg_parser))
CmdParser(input) ==
    LET name == CmdParamParser(input)
    IN  [ok |-> name.ok,
         kw |-> name.out,
         args |-> IF name.ok THEN CmdArgParser(name.rest) ELSE <<>>]

\* Keyword and arguments joined with single spaces.
RECURSIVE Join(_)
Join(tokens) ==
    IF tokens = <<>> THEN <<>>
    ELSE IF Len(tokens) = 1 THEN tokens[1]
    ELSE tokens[1] \o <<"SP">> \o Join(Tail(tokens))

\* No line given to the parser.
NoTokens == [step |-> "none", line |-> <<>>, kw |-> <<>>, args |-> <<>>,
             joined |-> <<>>, ok2 |-> FALSE, kw2 |-> <<>>, args2 |-> <<>>]

----------------------------------------------------------------------------
\* Rendering of a reply (status_codes.rs).

\* No StatusCode being rendered.
NoReply == [step |-> "none", variant |-> "", payload |-> <<>>, port_high |-> 0,
            port_low |-> 0, code |-> 0, text |-> <<>>]

\* The variants of the enum that carry no field.
UnitVariants ==
    {"RestartMarkerReply", "ServiceReadyIn", "DataOpenTransfer", "FileStatusOk", "Ok",
     "SuperfluousCmdNotImplemented", "SystemStatus", "DirectoryStatus", "FileStatus",
     "SystemType", "ServiceReadyUser", "DataOpenNoTransfer", "ClosingDataConn",
     "UserLoggedIn", "FileActionOk", "PathCreated", "UsernameOk", "NeedLoginAccount",
     "FileActionPending", "Unnavaidable", "CantOpenDataConn", "TransferAborted",
     "FileActionNotTaken", "ActionAbortedLocal", "InsufficientStorage", "SyntaxError",
     "CmdNotImplemented", "CmdBadSequence", "CmdNotImplementedParam", "UserNotLoggedIn",
     "NeedAccountForStore", "ActionNotTaken", "ActionAbortedPageTypeUnknown",
     "ExceededStorageAllocation", "FilenameNotAllowed"}

\* StatusCode::code.
CodeOf(v) ==
    CASE v = "RestartMarkerReply" -> 110
      [] v = "ServiceReadyIn" -> 120
      [] v = "DataOpenTransfer" -> DataOpenTransfer
      [] v = "FileStatusOk" -> FileStatusOk
      [] v = "Ok" -> Ok
      [] v = "SuperfluousCmdNotImplemented" -> 202
      [] v = "SystemStatus" -> 211
      [] v = "DirectoryStatus" -> 212
      [] v = "FileStatus" -> 213
      [] v = "HelpMsg" -> 214
      [] v = "SystemType" -> 215
      [] v = "ServiceReadyUser" -> ServiceReadyUser
      [] v = "DataOpenNoTransfer" -> 225
      [] v = "ClosingDataConn" -> ClosingDataConn
      [] v = "EnteringPassiveMode" -> EnteringPassiveMode
      [] v = "UserLoggedIn" -> UserLoggedIn
      [] v = "FileActionOk" -> FileActionOk
      [] v = "PathCreated" -> PathCreated
      [] v = "UsernameOk" -> UsernameOk
      [] v = "NeedLoginAccount" -> 332
      [] v = "FileActionPending" -> FileActionPending
      [] v = "Unnavaidable" -> 421
      [] v = "CantOpenDataConn" -> CantOpenDataConn
      [] v = "TransferAborted" -> 426
      [] v = "FileActionNotTaken" -> FileActionNotTaken
      [] v = "ActionAbortedLocal" -> 451
      [] v = "InsufficientStorage" -> 452
      [] v = "SyntaxError" -> SyntaxError
      [] v = "CmdNotImplemented" -> CmdNotImplemented
      [] v = "CmdBadSequence" -> 503
      [] v = "CmdNotImplementedParam" -> 504
      [] v = "UserNotLoggedIn" -> 530
      [] v = "NeedAccountForStore" -> 532
      [] v = "ActionNotTaken" -> 550
      [] v = "ActionAbortedPageTypeUnknown" -> 551
      [] v = "ExceededStorageAllocation" -> 552
      [] v = "FilenameNotAllowed" -> 553

\* The characters "{}" formats a u16 into.
DigitChar(d) == <<"0", "1", "2", "3", "4", "5", "6", "7", "8", "9">>[d + 1]

Digits(n) == [i \in 1 .. Len(Decimal(n)) |-> DigitChar(Decimal(n)[i])]

\* format!("{} <message>", self.code()): the code, one space, the message.
FormatNoSpace(code, message) == Digits(code) \o message

Format(code, message) == Digits(code) \o <<" ">> \o message

\* The arms of to_string that are written; every other arm is todo!().
Written ==
    {"RestartMarkerReply", "DataOpenTransfer", "Ok", "HelpMsg", "ServiceReadyUser",
     "DataOpenNoTransfer", "ClosingDataConn", "EnteringPassiveMode", "FileActionOk",
     "CmdNotImplemented"}

\* The message of a written arm, the line terminator included where the
\* format string has one.
Message(r) ==
    CASE r.variant = "RestartMarkerReply" -> <<"Restart marker reply", "LF">>
      [] r.variant = "DataOpenTransfer" ->
             <<"Data connection already open; transfer starting", "LF">>
      [] r.variant = "Ok" -> <<"Ok">>
      [] r.variant = "HelpMsg" -> r.payload \o <<"LF">>
      [] r.variant = "ServiceReadyUser" -> <<"Service ready for new user", "LF">>
      [] r.variant = "DataOpenNoTransfer" -> <<"Data connection open", "LF">>
      [] r.variant = "ClosingDataConn" -> <<"Closing data connection", "LF">>
      [] r.variant = "EnteringPassiveMode" ->
             <<"Entering Passive Mode (127, 0, 0, 1, ">> \o Digits(r.port_high)
                 \o <<", ">> \o Digits(r.port_low) \o <<")", "LF">>
      [] r.variant = "FileActionOk" -> <<"Requested file action okay, completed", "LF">>
      [] r.variant = "CmdNotImplemented" -> <<"Command not implemented", "LF">>

\* The feature list Feat::run hands to SystemStatus.
Features ==
    <<"-", "Features:", "LF", " MLST type*;size*;modify*", "LF", " MLSD", "LF", " UTF8">>

\* The multi-line reply: the code and the payload (which opens with the
\* hyphen), then the closing line "<code> END".
Multiline(code, payload) ==
    Digits(code) \o payload \o <<"LF">> \o Digits(code) \o <<" ", "END", "LF">>

\* SystemStatus built with the feature list.
IsMultiline(r) == r.variant = "SystemStatus" /\ r.payload # <<>>

\* StatusCode::to_string: the text, or <<>> for the todo!() panic.
to_string(r) ==
    IF IsMultiline(r) THEN Multiline(CodeOf(r.variant), r.payload)
    ELSE IF r.variant \in Written THEN Format(CodeOf(r.variant), Message(r))
    ELSE <<>>

----------------------------------------------------------------------------
\* Shorthands for what a handler step leaves.

Return(r) == /\ result' = r
             /\ pc' = "respond"
             /\ hpc' = "idle"

Panic(c) == /\ pc' = "crashed"
            /\ cause' = c
            /\ hpc' = "idle"
            /\ result' = NoResult

\* Connection::new, and the task that runs connect() not yet started.
Fresh ==
    /\ pc = "greet"
    /\ hpc = "idle"
    /\ cmd = EmptyLine
    /\ result = NoResult
    /\ replied = FALSE
    /\ ctrl = <<>>
    /\ nread = 0
    /\ data_connection = 0
    /\ sock = <<>>
    /\ tasks = <<>>
    /\ session_lock = "none"
    /\ using = 0
    /\ dcAbsent = FALSE
    /\ cause = ""
    /\ ctrlUp = TRUE
    /\ cwd = ProcessDir
    /\ atRead = [cwd |-> ProcessDir, nctrl |-> 0]
    /\ reply_path = ""
    /\ writer = "open"
    /\ source = NoFile
    /\ file = NoUpload

Init ==
    /\ dispatcher \in {"execute_command", "Command"}
    /\ Fresh
    /\ enc = NoPort
    /\ signal = FALSE
    /\ listening = "accepting"
    /\ actors = <<>>
    /\ tok = NoTokens
    /\ reply = NoReply

\* Connection::connect writes the greeting before the loop.
Greet ==
    /\ pc = "greet"
    /\ ctrl' = WriteGreeting(ctrl)
    /\ pc' = "read"
    /\ UNCHANGED <<file, aside,
                   cwd, atRead, reply_path, writer, source,
                   dispatcher, ctrlUp, hpc, cmd, result, replied, nread, data_connection,
                   sock, tasks, session_lock, using, dcAbsent, cause>>

\* read_until + cmd_parser(input).unwrap()
ReadLine ==
    /\ pc = "read"
    /\ nread < MaxLines
    /\ \E l \in Lines :
        /\ cmd' = l
        /\ IF CmdParserOk(l)
             THEN pc' = "dispatch" /\ cause' = cause
             ELSE pc' = "crashed" /\ cause' = "empty_line"
    /\ nread' = nread + 1
    /\ result' = NoResult
    /\ replied' = FALSE
    /\ dcAbsent' = FALSE
    /\ using' = 0
    /\ atRead' = [cwd |-> cwd, nctrl |-> Len(ctrl)]
    /\ reply_path' = ""
    /\ source' = NoFile
    /\ file' = NoUpload
    /\ UNCHANGED <<aside,
                   cwd, writer,
                   dispatcher, ctrlUp, hpc, ctrl, data_connection, sock, tasks,
                   session_lock>>

\* match response { Ok(res) => ..., Err(e) => error!(...) }; buf.clear()
Respond ==
    /\ pc = "respond"
    /\ IF LoopEndsOn(result, cmd)
         THEN /\ pc' = "closed"
              /\ cause' = "quit"
              /\ UNCHANGED <<ctrl, replied>>
         ELSE /\ pc' = "read"
              /\ ctrl' = WriteResponse(ctrl, result)
              /\ replied' = (ctrl' # ctrl)
              /\ cause' = cause
    /\ UNCHANGED <<file, aside,
                   cwd, atRead, reply_path, writer, source,
                   dispatcher, ctrlUp, hpc, cmd, result, nread, data_connection, sock,
                   tasks, session_lock, using, dcAbsent>>

----------------------------------------------------------------------------
\* Installing and using the session's data connection.

Listener(o) == [st |-> "listening", owner |-> o, sock |-> 0]

\* data_connection.as_ref() was Some and its Mutex is locked: the transfer
\* starts on the session's current socket.
StartTransfer ==
    /\ using' = data_connection
    /\ sock' = [sock EXCEPT ![data_connection].uses = @ + 1]
    /\ pc' = "exec"
    /\ hpc' = "xfer"

\* The status a handler returns after a transfer that met no error.
TransferStatus ==
    IF dispatcher = "Command"
      THEN (IF cmd.kw = "STOR" THEN CantOpenDataConn ELSE ClosingDataConn)
      ELSE (IF cmd.kw = "STOR" THEN Ok ELSE PathCreated)

\* Whether the handler shuts the data socket down at the end of such a transfer.
ShutsDown == ~(dispatcher = "execute_command" /\ cmd.kw = "STOR")

\* Handlers that write to the data socket; STOR reads from it.
Sends == cmd.kw \in {"LIST", "MLSD", "RETR"}

\* Contents of the files a RETR can name.
FileContents == { <<>>, <<"h", "LF", "h">> }

\* Retr::run's loop: file.read(&mut buffer) then write_all(&buffer[..bytes_read])
\* until a read returns 0.
RECURSIVE SendChunks(_)
SendChunks(content) ==
    IF content = <<>>
      THEN <<>>
      ELSE LET n == IF Len(content) < BufferLen THEN Len(content) ELSE BufferLen
           IN  SubSeq(content, 1, n) \o SendChunks(SubSeq(content, n + 1, Len(content)))

\* execute_command's RETR arm: buf.replace('\n', "\r\n")
RECURSIVE ReplaceLf(_)
ReplaceLf(content) ==
    IF content = <<>>
      THEN <<>>
      ELSE (IF Head(content) = "LF" THEN <<"CR", "LF">> ELSE <<Head(content)>>)
               \o ReplaceLf(Tail(content))

\* One listing line per entry of the directory List::run / Mlsd::run reads.
Listing(dir) == IF dir = "/" THEN <<"entry">> ELSE <<>>

\* The directory a listing enumerates: std::env::current_dir() in List::run,
\* connection.cwd() in Mlsd::run.
ListedDir == IF cmd.kw = "LIST" THEN ProcessDir ELSE cwd

\* write("\0".as_bytes()) after the last line of a listing.
SentinelMissing == <<>>

Sentinel == <<"NUL">>

\* The bytes a handler writes on the data socket in a transfer that meets no error.
Payload ==
    CASE cmd.kw = "RETR" ->
             (IF dispatcher = "Command" THEN SendChunks(source.bytes) ELSE ReplaceLf(source.bytes))
      [] cmd.kw \in {"LIST", "MLSD"} -> Listing(ListedDir) \o Sentinel
      [] OTHER -> <<>>

\* What a client uploads on the data socket before it closes its end.
ClientData == { <<"a", "b", "c">>, <<"a", "NUL", "b">> }

\* Stor::run's loop: read(&mut buffer) then write_all(&buffer[..bytes_read])
\* until a read returns 0; n is the most one read returns.
RECURSIVE ReadToEnd(_, _)
ReadToEnd(bytes, n) ==
    IF bytes = <<>>
      THEN <<>>
      ELSE LET k == IF Len(bytes) < n THEN Len(bytes) ELSE n
           IN  SubSeq(bytes, 1, k) \o ReadToEnd(SubSeq(bytes, k + 1, Len(bytes)), n)

\* DataConnection::receive: read_until(b'\0', &mut buf), the delimiter included.
RECURSIVE ReadUntilNul(_)
ReadUntilNul(bytes) ==
    IF bytes = <<>>
      THEN <<>>
      ELSE IF Head(bytes) = "NUL"
        THEN <<"NUL">>
        ELSE <<Head(bytes)>> \o ReadUntilNul(Tail(bytes))

\* The bytes a STOR writes to the file it created, of the bytes the client sent.
Stored(sent, n) ==
    IF dispatcher = "Command" THEN ReadToEnd(sent, n) ELSE ReadUntilNul(sent)

\* What the client sends on the socket a handler uses: an upload for the
\* first STOR that reads it, nothing otherwise.
Uploads ==
    IF cmd.kw = "STOR" /\ sock[using].uses = 1 THEN ClientData ELSE { <<>> }

\* The prefixes of a payload: what is on the wire when a file read, a write
\* or the final shutdown fails.
Prefixes(bytes) == { SubSeq(bytes, 1, n) : n \in 0 .. Len(bytes) }

----------------------------------------------------------------------------
\* Connection::execute_command (ftp/server.rs)

Executing == dispatcher = "execute_command" /\ pc = "dispatch"

ExecUser ==
    /\ Executing
    /\ cmd.kw \in {"USER", "PASS"}
    /\ Return(OkSome(UserLoggedIn))
    /\ UNCHANGED <<file, aside,
                   cwd, atRead, reply_path, writer, source,
                   dispatcher, ctrlUp, cmd, replied, ctrl, nread, data_connection, sock,
                   tasks, session_lock, using, dcAbsent, cause>>

\* PASV arm up to the await of data_listener.accept()
ExecPasv ==
    /\ Executing
    /\ cmd.kw = "PASV"
    /\ ctrl' = Append(ctrl, EnteringPassiveMode)
    /\ tasks' = Append(tasks, Listener("handler"))
    /\ pc' = "exec"
    /\ hpc' = "pasv_accept"
    /\ UNCHANGED <<file, aside,
                   cwd, atRead, reply_path, writer, source,
                   dispatcher, ctrlUp, cmd, result, replied, nread, data_connection, sock,
                   session_lock, using, dcAbsent, cause>>

\* PASV arm once a client has connected to the passive port
ExecPasvAccept ==
    /\ dispatcher = "execute_command"
    /\ pc = "exec"
    /\ hpc = "pasv_accept"
    /\ sock' = Append(ReleasePrevious(sock, data_connection), NewSock)
    /\ data_connection' = Len(sock) + 1
    /\ tasks' = [tasks EXCEPT ![Len(tasks)] =
                    [st |-> "done", owner |-> "handler", sock |-> Len(sock) + 1]]
    /\ Return(OkNone)
    /\ UNCHANGED <<file, aside,
                   cwd, atRead, reply_path, writer, source,
                   dispatcher, ctrlUp, cmd, replied, ctrl, nread, session_lock, using,
                   dcAbsent, cause>>

ExecPort ==
    /\ Executing
    /\ cmd.kw = "PORT"
    /\ \E connected \in BOOLEAN :
        IF cmd.nargs = 0 \/ ~cmd.wf
          THEN /\ Panic(IF cmd.nargs = 0 THEN "args_unwrap" ELSE "port_parse")
               /\ UNCHANGED <<data_connection, sock>>
          ELSE IF ~connected
            THEN /\ Panic("port_connect")
                 /\ UNCHANGED <<data_connection, sock>>
            ELSE /\ sock' = Append(ReleasePrevious(sock, data_connection), NewSock)
                 /\ data_connection' = InstallConnected(Len(sock) + 1)
                 /\ Return(OkSome(Ok))
                 /\ cause' = cause
    /\ UNCHANGED <<file, aside,
                   cwd, atRead, reply_path, writer, source,
                   dispatcher, ctrlUp, cmd, replied, ctrl, nread, tasks, session_lock,
                   using, dcAbsent>>

ExecStor ==
    /\ Executing
    /\ cmd.kw = "STOR"
    /\ IF cmd.nargs = 0
         THEN /\ Panic("args_unwrap")
              /\ UNCHANGED <<ctrl, sock, using, dcAbsent>>
         ELSE /\ ctrl' = Append(ctrl, DataOpenTransfer)
              /\ IF data_connection = 0
                   THEN /\ Panic("no_data_connection")
                        /\ dcAbsent' = TRUE
                        /\ UNCHANGED <<sock, using>>
                   ELSE /\ StartTransfer
                        /\ UNCHANGED <<result, dcAbsent, cause>>
    /\ UNCHANGED <<file, aside,
                   cwd, atRead, reply_path, writer, source,
                   dispatcher, ctrlUp, cmd, replied, nread, data_connection, tasks,
                   session_lock>>

ExecRetr ==
    /\ Executing
    /\ cmd.kw = "RETR"
    /\ \E fileok \in BOOLEAN, content \in FileContents :
        IF cmd.nargs = 0
          THEN /\ Panic("args_unwrap")
               /\ UNCHANGED <<ctrl, sock, using, dcAbsent, source>>
          ELSE /\ ctrl' = Append(ctrl, DataOpenTransfer)
               /\ IF ~fileok
                    THEN /\ source' = OpenFailed
                         /\ Return(Err)
                         /\ UNCHANGED <<sock, using, dcAbsent, cause>>
                    ELSE /\ source' = Opened(content)
                         /\ IF data_connection = 0
                              THEN /\ Panic("no_data_connection")
                                   /\ dcAbsent' = TRUE
                                   /\ UNCHANGED <<sock, using>>
                              ELSE /\ StartTransfer
                                   /\ UNCHANGED <<result, dcAbsent, cause>>
    /\ UNCHANGED <<file, aside,
                   cwd, atRead, reply_path, writer,
                   dispatcher, ctrlUp, cmd, replied, nread, data_connection, tasks,
                   session_lock>>

ExecQuit ==
    /\ Executing
    /\ cmd.kw = "QUIT"
    /\ ctrl' = Append(ctrl, ServiceClosingControlConn)
    /\ writer' = "shutdown"
    /\ Return(OkSome(Ok))
    /\ UNCHANGED <<file, aside,
                   cwd, atRead, reply_path, source,
                   dispatcher, ctrlUp, cmd, replied, nread, data_connection, sock, tasks,
                   session_lock, using, dcAbsent, cause>>

\* The FEAT, SIZE, TYPE and LPRT arms.
ExecNotImplemented ==
    /\ Executing
    /\ cmd.kw \in {"FEAT", "SIZE", "TYPE", "LPRT"}
    /\ Return(OkSome(CmdNotImplemented))
    /\ UNCHANGED <<file, aside,
                   cwd, atRead, reply_path, writer, source,
                   dispatcher, ctrlUp, cmd, replied, ctrl, nread, data_connection, sock,
                   tasks, session_lock, using, dcAbsent, cause>>

ExecDefault ==
    /\ Executing
    /\ cmd.kw \notin ExecuteCommandKeywords
    /\ Return(OkSome(DefaultArm))
    /\ UNCHANGED <<file, aside,
                   cwd, atRead, reply_path, writer, source,
                   dispatcher, ctrlUp, cmd, replied, ctrl, nread, data_connection, sock,
                   tasks, session_lock, using, dcAbsent, cause>>

----------------------------------------------------------------------------
\* The Command framework (ftp/command/)

\* Command::try_from: one arm per listed keyword, each deferring to the
\* handler's own try_from; any other keyword bails.
CommandTryFrom(l) == l.kw \in CommandKeywords /\ HandlerTryFrom(l)

\* Construction of a handler from the parsed line: Command::try_from for the
\* listed keywords, the handler's own try_from for MLSD and QUIT.
Construct(l) ==
    \/ CommandTryFrom(l)
    \/ l.kw \in UnlistedHandlerKeywords /\ HandlerTryFrom(l)

Running == dispatcher = "Command" /\ pc = "dispatch" /\ Construct(cmd)

\* An unrecognized keyword or an invalid argument shape yields CmdNotImplemented.
ConstructFail ==
    /\ dispatcher = "Command"
    /\ pc = "dispatch"
    /\ ~Construct(cmd)
    /\ Return(OkSome(CmdNotImplemented))
    /\ UNCHANGED <<file, aside,
                   cwd, atRead, reply_path, writer, source,
                   dispatcher, ctrlUp, cmd, replied, ctrl, nread, data_connection, sock,
                   tasks, session_lock, using, dcAbsent, cause>>

\* User::run
UserRun ==
    /\ Running
    /\ cmd.kw = "USER"
    /\ Return(OkSome(UsernameOk))
    /\ UNCHANGED <<file, aside,
                   cwd, atRead, reply_path, writer, source,
                   dispatcher, ctrlUp, cmd, replied, ctrl, nread, data_connection, sock,
                   tasks, session_lock, using, dcAbsent, cause>>

\* Pass::run
PassRun ==
    /\ Running
    /\ cmd.kw = "PASS"
    /\ Return(OkSome(UserLoggedIn))
    /\ UNCHANGED <<file, aside,
                   cwd, atRead, reply_path, writer, source,
                   dispatcher, ctrlUp, cmd, replied, ctrl, nread, data_connection, sock,
                   tasks, session_lock, using, dcAbsent, cause>>

\* A Pasv::run that writes 227 and returns with no listener bound.
PasvRunUnbound ==
    /\ Running
    /\ cmd.kw = "PASV"
    /\ ctrl' = Append(ctrl, EnteringPassiveMode)
    /\ Return(OkNone)
    /\ UNCHANGED <<file, aside,
                   cwd, atRead, reply_path, writer, source,
                   dispatcher, ctrlUp, cmd, replied, nread, data_connection, sock,
                   session_lock, using, dcAbsent, cause, tasks>>

\* Pasv::run: bind, write 227, flush, spawn the accept task, return Ok(None)
PasvRun ==
    /\ Running
    /\ cmd.kw = "PASV"
    /\ ctrl' = Append(ctrl, EnteringPassiveMode)
    /\ tasks' = Append(tasks, Listener("task"))
    /\ Return(OkNone)
    /\ UNCHANGED <<file, aside,
                   cwd, atRead, reply_path, writer, source,
                   dispatcher, ctrlUp, cmd, replied, nread, data_connection, sock,
                   session_lock, using, dcAbsent, cause>>

\* The spawned task: data_listener.accept() completes when a client connects.
TaskAccept(t) ==
    /\ tasks[t].st = "listening"
    /\ tasks[t].owner = "task"
    /\ sock' = Append(sock, NewSock)
    /\ tasks' = [tasks EXCEPT ![t] = [@ EXCEPT !.st = "accepted", !.sock = Len(sock) + 1]]
    /\ UNCHANGED <<file, aside,
                   cwd, atRead, reply_path, writer, source,
                   dispatcher, ctrlUp, pc, hpc, cmd, result, replied, ctrl, nread,
                   data_connection, session_lock, using, dcAbsent, cause>>

\* The spawned task: connection_mutex.lock().await ... data_connection = Some(..)
TaskInstall(t) ==
    /\ tasks[t].st = "accepted"
    /\ session_lock = "none"
    /\ sock' = ReleasePrevious(sock, data_connection)
    /\ data_connection' = tasks[t].sock
    /\ tasks' = [tasks EXCEPT ![t].st = "done"]
    /\ UNCHANGED <<file, aside,
                   cwd, atRead, reply_path, writer, source,
                   dispatcher, ctrlUp, pc, hpc, cmd, result, replied, ctrl, nread,
                   session_lock, using, dcAbsent, cause>>

\* Port::run
PortRun ==
    /\ Running
    /\ cmd.kw = "PORT"
    /\ \E connected \in BOOLEAN :
        IF ~cmd.wf
          THEN /\ Panic("port_parse")
               /\ UNCHANGED <<data_connection, sock>>
          ELSE IF ~connected
            THEN /\ Panic("port_connect")
                 /\ UNCHANGED <<data_connection, sock>>
            ELSE /\ sock' = Append(ReleasePrevious(sock, data_connection), NewSock)
                 /\ data_connection' = InstallConnected(Len(sock) + 1)
                 /\ Return(OkSome(Ok))
                 /\ cause' = cause
    /\ UNCHANGED <<file, aside,
                   cwd, atRead, reply_path, writer, source,
                   dispatcher, ctrlUp, cmd, replied, ctrl, nread, tasks, session_lock,
                   using, dcAbsent>>

\* change_dir(path): a path is resolved against the current cwd (every path
\* of the model is absolute, so it resolves to itself), and committed only if
\* it names an existing directory.
ChangeDir(base, path) == IF path \in Dirs THEN path ELSE base

\* Cwd::run
CwdRun ==
    /\ Running
    /\ cmd.kw = "CWD"
    /\ cwd' = ChangeDir(cwd, cmd.arg)
    /\ Return(IF cmd.arg \in Dirs THEN OkSome(FileActionOk) ELSE Err)
    /\ UNCHANGED <<file, aside,
                   atRead, reply_path, writer, source,
                   dispatcher, ctrlUp, cmd, replied, ctrl, nread, data_connection, sock,
                   tasks, session_lock, using, dcAbsent, cause>>

\* Pwd::run: PathCreated(std::env::current_dir())
PwdRun ==
    /\ Running
    /\ cmd.kw = "PWD"
    /\ reply_path' = ProcessDir
    /\ Return(OkSome(PathCreated))
    /\ UNCHANGED <<file, aside,
                   cwd, atRead, writer, source,
                   dispatcher, ctrlUp, cmd, replied, ctrl, nread, data_connection, sock,
                   tasks, session_lock, using, dcAbsent, cause>>

\* Type::run
TypeRun ==
    /\ Running
    /\ cmd.kw = "TYPE"
    /\ Return(OkSome(Ok))
    /\ UNCHANGED <<file, aside,
                   cwd, atRead, reply_path, writer, source,
                   dispatcher, ctrlUp, cmd, replied, ctrl, nread, data_connection, sock,
                   tasks, session_lock, using, dcAbsent, cause>>

\* A Rest::run that gives up the Data Connection.
RestRunDropsLink ==
    /\ Running
    /\ cmd.kw = "REST"
    /\ Return(OkSome(FileActionPending))
    /\ data_connection' = 0
    /\ UNCHANGED <<file, aside,
                   cwd, atRead, reply_path, writer, source,
                   dispatcher, ctrlUp, cmd, replied, ctrl, nread, sock,
                   tasks, session_lock, using, dcAbsent, cause>>

\* Rest::run
RestRun ==
    /\ Running
    /\ cmd.kw = "REST"
    /\ Return(OkSome(FileActionPending))
    /\ UNCHANGED <<file, aside,
                   cwd, atRead, reply_path, writer, source,
                   dispatcher, ctrlUp, cmd, replied, ctrl, nread, data_connection, sock,
                   tasks, session_lock, using, dcAbsent, cause>>

\* What Retr::run returns when File::open fails: the match's Err arm.
OpenErrorPropagated == Err

OpenError == OkSome(FileActionNotTaken)

\* Retr::run up to the second connection.lock()
RetrRun ==
    /\ Running
    /\ cmd.kw = "RETR"
    /\ \E fileok \in BOOLEAN, content \in FileContents :
        IF ~fileok
          THEN /\ source' = OpenFailed
               /\ Return(OpenError)
               /\ ctrl' = ctrl
          ELSE /\ source' = Opened(content)
               /\ ctrl' = Append(ctrl, DataOpenTransfer)
               /\ pc' = "exec"
               /\ hpc' = "lock"
               /\ result' = result
    /\ UNCHANGED <<file, aside,
                   cwd, atRead, reply_path, writer,
                   dispatcher, ctrlUp, cmd, replied, nread, data_connection, sock, tasks,
                   session_lock, using, dcAbsent, cause>>

\* Stor::run, List::run, Mlsd::run up to connection.lock(): the preliminary reply
PreliminaryReply ==
    IF cmd.kw = "MLSD" THEN FileStatusOk ELSE DataOpenTransfer

StorListMlsdRun ==
    /\ Running
    /\ cmd.kw \in {"STOR", "LIST", "MLSD"}
    /\ ctrl' = Append(ctrl, PreliminaryReply)
    /\ pc' = "exec"
    /\ hpc' = "lock"
    /\ UNCHANGED <<file, aside,
                   cwd, atRead, reply_path, writer, source,
                   dispatcher, ctrlUp, cmd, result, replied, nread, data_connection, sock,
                   tasks, session_lock, using, dcAbsent, cause>>

\* What each handler does when data_connection is None.
AbsentOutcome ==
    CASE cmd.kw \in {"RETR", "STOR"} -> "panic"
      [] cmd.kw = "MLSD" -> "425"
      [] OTHER -> "226"

\* connection.lock().await, then data_connection.as_ref()
AcquireSession ==
    /\ dispatcher = "Command"
    /\ pc = "exec"
    /\ hpc = "lock"
    /\ session_lock = "none"
    /\ IF data_connection = 0
         THEN /\ dcAbsent' = TRUE
              /\ IF AbsentOutcome = "panic"
                   THEN Panic("no_data_connection")
                   ELSE /\ Return(OkSome(IF AbsentOutcome = "425"
                                           THEN CantOpenDataConn
                                           ELSE ClosingDataConn))
                        /\ cause' = cause
              /\ UNCHANGED <<sock, using, session_lock>>
         ELSE /\ StartTransfer
              /\ session_lock' = "ctrl"
              /\ UNCHANGED <<result, dcAbsent, cause>>
    /\ UNCHANGED <<file, aside,
                   cwd, atRead, reply_path, writer, source,
                   dispatcher, ctrlUp, cmd, replied, ctrl, nread, data_connection, tasks>>

\* Quit::run
QuitRun ==
    /\ Running
    /\ cmd.kw = "QUIT"
    /\ ctrl' = Append(ctrl, ServiceClosingControlConn)
    /\ writer' = "shutdown"
    /\ Return(OkNone)
    /\ UNCHANGED <<file, aside,
                   cwd, atRead, reply_path, source,
                   dispatcher, ctrlUp, cmd, replied, nread, data_connection, sock, tasks,
                   session_lock, using, dcAbsent, cause>>

----------------------------------------------------------------------------
\* The transfer itself, in either dispatcher.

\* The handler returns: its MutexGuard on the session goes out of scope.
GuardKept == "ctrl"

GuardDropped == "none"

\* The transfer runs to its end without an error; the handler returns its status.
TransferOk ==
    /\ pc = "exec"
    /\ hpc = "xfer"
    /\ IF Sends THEN sock[using].st = "open" ELSE sock[using].st \in {"open", "shutdown"}
    /\ \E sent \in Uploads, n \in 1 .. BufferLen :
        /\ sock' = [sock EXCEPT ![using].out = @ \o Payload,
                                ![using].inp = @ \o sent,
                                ![using].st = IF ShutsDown THEN "shutdown" ELSE @]
        /\ file' = IF cmd.kw = "STOR" THEN Created(Stored(sent, n)) ELSE file
    /\ Return(OkSome(TransferStatus))
    /\ session_lock' = GuardDropped
    /\ UNCHANGED <<aside,
                   cwd, atRead, reply_path, writer, source,
                   dispatcher, ctrlUp, cmd, replied, ctrl, nread, data_connection, tasks,
                   using, dcAbsent, cause>>

\* A file operation or a data-socket operation fails: the `?` returns the error.
TransferFail ==
    /\ pc = "exec"
    /\ hpc = "xfer"
    /\ \E why \in {"file", "socket"}, sent \in Prefixes(Payload) :
        \* nothing goes out on a socket whose write half is already shut down
        /\ sock[using].st # "open" => sent = <<>>
        /\ sock' = [sock EXCEPT ![using].out = @ \o sent,
                                ![using].st = IF why = "socket" /\ @ = "open"
                                                THEN "broken" ELSE @]
    /\ Return(Err)
    /\ session_lock' = GuardDropped
    /\ UNCHANGED <<file, aside,
                   cwd, atRead, reply_path, writer, source,
                   dispatcher, ctrlUp, cmd, replied, ctrl, nread, data_connection, tasks,
                   using, dcAbsent, cause>>

----------------------------------------------------------------------------
\* Control-socket faults.

Ended == pc \in {"closed", "crashed"}

\* The client closes or resets its end of the control connection.
PeerClose ==
    /\ ctrlUp
    /\ ~Ended
    /\ ctrlUp' = FALSE
    /\ UNCHANGED <<file, aside,
                   cwd, atRead, reply_path, writer, source,
                   dispatcher, pc, hpc, cmd, result, replied, ctrl, nread,
                   data_connection, sock, tasks, session_lock, using, dcAbsent, cause>>

\* The handlers whose first effect is writer.write(..).await.into_diagnostic()?
WritesFirst ==
    \/ /\ dispatcher = "execute_command"
       /\ \/ cmd.kw \in {"PASV", "QUIT"}
          \/ cmd.kw \in {"STOR", "RETR"} /\ cmd.nargs > 0
    \/ /\ dispatcher = "Command"
       /\ Construct(cmd)
       /\ cmd.kw \in {"PASV", "QUIT", "RETR", "STOR", "LIST", "MLSD"}

\* That write fails and the `?` returns the error from the handler.
HandlerWriteFails ==
    /\ pc = "dispatch"
    /\ ~ctrlUp
    /\ WritesFirst
    /\ Return(Err)
    /\ UNCHANGED <<file, aside,
                   cwd, atRead, reply_path, writer, source,
                   dispatcher, ctrlUp, cmd, replied, ctrl, nread, data_connection,
                   sock, tasks, session_lock, using, dcAbsent, cause>>

\* The loop's own I/O on the control socket fails: connect returns the error,
\* and the task that runs connection.connect().await.unwrap() ends on it.
ControlIoError ==
    /\ ~ctrlUp
    /\ \/ pc = "greet"
       \/ pc = "read"
       \/ pc = "respond" /\ WriteResponse(ctrl, result) # ctrl
                         /\ ~LoopEndsOn(result, cmd)
    /\ pc' = "crashed"
    /\ cause' = "control_io"
    /\ UNCHANGED <<file, aside,
                   cwd, atRead, reply_path, writer, source,
                   dispatcher, ctrlUp, hpc, cmd, result, replied, ctrl, nread,
                   data_connection, sock, tasks, session_lock, using, dcAbsent>>

----------------------------------------------------------------------------

Next ==
    \/ PeerClose
    \/ HandlerWriteFails
    \/ ControlIoError
    \/ Greet
    \/ ReadLine
    \/ Respond
    \/ ExecUser
    \/ ExecPasv
    \/ ExecPasvAccept
    \/ ExecPort
    \/ ExecStor
    \/ ExecRetr
    \/ ExecQuit
    \/ ExecNotImplemented
    \/ ExecDefault
    \/ ConstructFail
    \/ UserRun
    \/ PassRun
    \/ PasvRun
    \/ \E t \in DOMAIN tasks : TaskAccept(t)
    \/ \E t \in DOMAIN tasks : TaskInstall(t)
    \/ PortRun
    \/ CwdRun
    \/ PwdRun
    \/ RestRun
    \/ TypeRun
    \/ RetrRun
    \/ StorListMlsdRun
    \/ AcquireSession
    \/ QuitRun
    \/ TransferOk
    \/ TransferFail

Spec == Init /\ [][Next]_vars

\* The scheduling of one connection: a handler in its transfer returns (the
\* proviso that running handlers return), and a passive task waiting on the
\* session Mutex gets it once it is free often enough (tokio's Mutex queues
\* its waiters first-in first-out).
ConnLive ==
    /\ Spec
    /\ WF_vars(TransferOk \/ TransferFail)
    /\ \A t \in 1 .. MaxLines : SF_vars(t \in DOMAIN tasks /\ TaskInstall(t))

----------------------------------------------------------------------------
\* The passive port from the bound listener to the port a PORT handler
\* connects to, when a client hands the two numbers of the 227 reply back as
\* the last two fields of a PORT argument.

\* The variables of one connection's control loop.
connvars == <<dispatcher, pc, hpc, cmd, result, replied, ctrl, nread, data_connection,
              sock, tasks, session_lock, using, dcAbsent, cause, ctrlUp, cwd, atRead,
              reply_path, writer, source, file>>

\* Connection::new: passive_addr is 127.0.0.1:2222
PassivePort == 2222

\* The port of the listener PASV bound: passive_addr's in execute_command,
\* the one the system chose for 127.0.0.1:0 in Pasv::run.
ListenerPorts == IF dispatcher = "Command" THEN 0 .. MaxPort ELSE {PassivePort}

EncInit ==
    /\ dispatcher \in {"execute_command", "Command"}
    /\ Fresh
    /\ \E p \in ListenerPorts : enc = [NoPort EXCEPT !.step = "bound", !.port = p]
    /\ signal = FALSE
    /\ listening = "accepting"
    /\ actors = <<>>
    /\ tok = NoTokens
    /\ reply = NoReply

\* let (port_high, port_low) = data_port.div_rem(&256)
EncDivRem ==
    /\ enc.step = "bound"
    /\ enc' = [enc EXCEPT !.step = "split",
                          !.high = DivRem(enc.port).high,
                          !.low = DivRem(enc.port).low]
    /\ UNCHANGED <<connvars, tok, reply, signal, listening, actors>>

\* StatusCode::EnteringPassiveMode { port_high, port_low }.to_string()
EncRender ==
    /\ enc.step = "split"
    /\ enc' = [enc EXCEPT !.step = "replied",
                          !.text = <<Decimal(enc.high), Decimal(enc.low)>>]
    /\ UNCHANGED <<connvars, tok, reply, signal, listening, actors>>

\* address.split(',').map(|e| e.parse::<u8>().unwrap()) on the two port fields
EncParse ==
    /\ enc.step = "replied"
    /\ LET a4 == ParseU8(enc.text[1])
           a5 == ParseU8(enc.text[2])
       IN  enc' = IF a4 < 0 \/ a5 < 0
                    THEN [enc EXCEPT !.step = "panicked"]
                    ELSE [enc EXCEPT !.step = "parsed", !.a4 = a4, !.a5 = a5]
    /\ UNCHANGED <<connvars, tok, reply, signal, listening, actors>>

\* let port = (address[4] as u16) << 8 | address[5] as u16
EncDecode ==
    /\ enc.step = "parsed"
    /\ enc' = [enc EXCEPT !.step = "decoded", !.decoded = Decode(enc.a4, enc.a5)]
    /\ UNCHANGED <<connvars, tok, reply, signal, listening, actors>>

EncNext ==
    \/ EncDivRem
    \/ EncRender
    \/ EncParse
    \/ EncDecode

EncSpec == EncInit /\ [][EncNext]_vars

----------------------------------------------------------------------------
\* A line through cmd_parser, a join with single spaces, and cmd_parser again.

\* The lines parsed: every string of 1 .. MaxLineLen characters.
RECURSIVE Strings(_)
Strings(n) ==
    IF n = 0 THEN { <<>> }
    ELSE { Append(str, c) : str \in Strings(n - 1), c \in Alphabet }

InputLines == UNION { Strings(n) : n \in 1 .. MaxLineLen }

ParseInit ==
    /\ dispatcher \in {"execute_command", "Command"}
    /\ Fresh
    /\ enc = NoPort
    /\ signal = FALSE
    /\ listening = "accepting"
    /\ actors = <<>>
    /\ \E l \in InputLines : tok = [NoTokens EXCEPT !.step = "line", !.line = l]
    /\ reply = NoReply

\* cmd_parser(input); the loop's unwrap() panics on an Err.
Parse ==
    /\ tok.step = "line"
    /\ LET r == CmdParser(tok.line)
       IN  tok' = IF r.ok
                    THEN [tok EXCEPT !.step = "parsed", !.kw = r.kw, !.args = r.args]
                    ELSE [tok EXCEPT !.step = "failed"]
    /\ UNCHANGED <<connvars, enc, signal, listening, actors, reply>>

Rejoin ==
    /\ tok.step = "parsed"
    /\ tok' = [tok EXCEPT !.step = "joined", !.joined = Join(<<tok.kw>> \o tok.args)]
    /\ UNCHANGED <<connvars, enc, signal, listening, actors, reply>>

Reparse ==
    /\ tok.step = "joined"
    /\ LET r == CmdParser(tok.joined)
       IN  tok' = [tok EXCEPT !.step = "reparsed", !.ok2 = r.ok, !.kw2 = r.kw,
                              !.args2 = r.args]
    /\ UNCHANGED <<connvars, enc, signal, listening, actors, reply>>

ParseNext ==
    \/ Parse
    \/ Rejoin
    \/ Reparse

ParseSpec == ParseInit /\ [][ParseNext]_vars

----------------------------------------------------------------------------
\* Rendering every reply of the catalog.

\* Messages of HelpMsg and the two numbers of EnteringPassiveMode.
HelpMessages == { <<"help">>, <<"type HELP">> }

PortBytes == {0, 8, 174, 255}

Renderable ==
    { [NoReply EXCEPT !.variant = v] : v \in UnitVariants }
    \cup { [NoReply EXCEPT !.variant = "HelpMsg", !.payload = m] : m \in HelpMessages }
    \cup { [NoReply EXCEPT !.variant = "EnteringPassiveMode", !.port_high = h,
                           !.port_low = l] : h \in PortBytes, l \in PortBytes }
    \cup { [NoReply EXCEPT !.variant = "SystemStatus", !.payload = Features] }

RenderInit ==
    /\ dispatcher \in {"execute_command", "Command"}
    /\ Fresh
    /\ enc = NoPort
    /\ signal = FALSE
    /\ listening = "accepting"
    /\ actors = <<>>
    /\ tok = NoTokens
    /\ \E r \in Renderable : reply = [r EXCEPT !.step = "variant"]

\* status.code()
Code ==
    /\ reply.step = "variant"
    /\ reply' = [reply EXCEPT !.step = "coded", !.code = CodeOf(reply.variant)]
    /\ UNCHANGED <<connvars, enc, signal, listening, actors, tok>>

\* status.to_string(), which calls code() itself.
Render ==
    /\ reply.step \in {"variant", "coded"}
    /\ LET text == to_string(reply)
       IN  reply' = [reply EXCEPT !.step = IF text = <<>> THEN "panicked" ELSE "rendered",
                                  !.code = CodeOf(reply.variant),
                                  !.text = text]
    /\ UNCHANGED <<connvars, enc, signal, listening, actors, tok>>

RenderNext ==
    \/ Code
    \/ Render

RenderSpec == RenderInit /\ [][RenderNext]_vars

----------------------------------------------------------------------------
\* The server: FTPServer::listen, the connection tasks add_connection
\* spawns, and the operator's interrupt.  Each task runs the control loop of
\* Connection::connect, seen here only through what one connection can share
\* with another: the passive port, the directories, the replies.

\* Clients that connect to the control port.
MaxConns == 2

\* Control lines one task reads before the model stops reading for it.
MaxActorLines == 2

\* The keywords the tasks are sent; a CWD names "/pub".
ActorKeywords == {"PASV", "CWD", "PWD", "QUIT"}

\* Connection::new(socket), moved into the task tokio::spawn starts.
NewActor ==
    [pc |-> "greet", line |-> "", cwd |-> ProcessDir, dc |-> FALSE, lst |-> FALSE,
     last |-> 0, n |-> 0, cause |-> ""]

\* The task's connect() has returned or panicked.
Finished(c) == actors[c].pc \in {"closed", "crashed"}

\* A listener is bound to passive_addr: a PASV arm of execute_command is
\* between TcpListener::bind and the end of its accept.
PassivePortHeld == \E d \in DOMAIN actors : actors[d].pc = "pasv_accept"

\* The operator's interrupt: the key that sets AppMode::Quit.
Interrupt ==
    /\ ~signal
    /\ signal' = TRUE
    /\ UNCHANGED <<connvars, tok, reply, enc, listening, actors>>

\* One turn of listen's loop: accept(), Connection::new, add_connection.
Accept ==
    /\ listening = "accepting"
    /\ Len(actors) < MaxConns
    /\ actors' = Append(actors, NewActor)
    /\ UNCHANGED <<connvars, tok, reply, enc, signal, listening>>

\* listener.accept().await.into_diagnostic()? returns the error from listen.
AcceptFails ==
    /\ listening = "accepting"
    /\ listening' = "returned"
    /\ UNCHANGED <<connvars, tok, reply, enc, signal, actors>>

\* connect(): the greeting, before the loop.
ActorGreet(c) ==
    /\ actors[c].pc = "greet"
    /\ actors' = [actors EXCEPT ![c].pc = "read", ![c].last = ServiceReadyUser]
    /\ UNCHANGED <<connvars, tok, reply, enc, signal, listening>>

\* read_until(b'\n', ..) returns a line the client sent.
ActorRead(c) ==
    /\ actors[c].pc = "read"
    /\ actors[c].n < MaxActorLines
    /\ \E kw \in ActorKeywords :
        actors' = [actors EXCEPT ![c].pc = "dispatch", ![c].line = kw, ![c].n = @ + 1]
    /\ UNCHANGED <<connvars, tok, reply, enc, signal, listening>>

\* What the panic of connect().await.unwrap() does to listen's loop: had
\* add_connection awaited connect() itself, the failure would end the loop.
TaskFailureAwaited(l) == "returned"

\* The connection runs in a task of its own (tokio::spawn, whose JoinHandle
\* is dropped): the runtime catches the panic and the loop is as it was.
TaskFailure(l) == l

\* The client closes the control connection: read_until returns no byte and
\* cmd_parser(input).unwrap() panics on the empty input.
ActorPeerClose(c) ==
    /\ actors[c].pc = "read"
    /\ actors' = [actors EXCEPT ![c].pc = "crashed", ![c].cause = "empty_line"]
    /\ listening' = TaskFailure(listening)
    /\ UNCHANGED <<connvars, tok, reply, enc, signal>>

\* The handler of the line the task read, and the loop's write of its status.
ActorExec(c) ==
    /\ actors[c].pc = "dispatch"
    /\ LET a == actors[c]
           legacy == dispatcher = "execute_command"
           to ==
             CASE a.line = "PASV" /\ legacy /\ PassivePortHeld ->
                      [a EXCEPT !.pc = "crashed", !.cause = "addr_in_use"]
               [] a.line = "PASV" /\ legacy /\ ~PassivePortHeld ->
                      [a EXCEPT !.pc = "pasv_accept", !.last = EnteringPassiveMode]
               [] a.line = "PASV" /\ ~legacy ->
                      [a EXCEPT !.pc = "read", !.last = EnteringPassiveMode, !.lst = TRUE]
               [] a.line = "CWD" /\ ~legacy ->
                      [a EXCEPT !.pc = "read", !.last = FileActionOk,
                                !.cwd = ChangeDir(a.cwd, "/pub")]
               [] a.line = "PWD" /\ ~legacy ->
                      [a EXCEPT !.pc = "read", !.last = PathCreated]
               [] a.line = "QUIT" ->
                      [a EXCEPT !.pc = "closed", !.last = ServiceClosingControlConn]
               [] OTHER ->
                      [a EXCEPT !.pc = "read", !.last = DefaultArm]
       IN  /\ actors' = [actors EXCEPT ![c] = to]
           /\ listening' = IF to.pc = "crashed" THEN TaskFailure(listening) ELSE listening
    /\ UNCHANGED <<connvars, tok, reply, enc, signal>>

\* A client connects to the passive listener of task c: the accept completes
\* and the socket becomes the session's data connection.
ActorDataConnect(c) ==
    /\ \/ actors[c].pc = "pasv_accept"
       \/ actors[c].lst /\ ~Finished(c)
    /\ actors' = [actors EXCEPT ![c].dc = TRUE,
                                ![c].lst = FALSE,
                                ![c].pc = IF @ = "pasv_accept" THEN "read" ELSE @]
    /\ UNCHANGED <<connvars, tok, reply, enc, signal, listening>>

ServerNext ==
    \/ Interrupt
    \/ Accept
    \/ AcceptFails
    \/ \E c \in DOMAIN actors : ActorGreet(c)
    \/ \E c \in DOMAIN actors : ActorRead(c)
    \/ \E c \in DOMAIN actors : ActorPeerClose(c)
    \/ \E c \in DOMAIN actors : ActorExec(c)
    \/ \E c \in DOMAIN actors : ActorDataConnect(c)

ServerSpec == Init /\ [][ServerNext]_vars

\* The runtime runs every task that is ready: a task that can write its
\* greeting or run the handler of a line it has read does so.  Nothing
\* makes a client connect or send a line.
ServerLive ==
    /\ ServerSpec
    /\ \A c \in 1 .. MaxConns : WF_vars(c \in DOMAIN actors /\ (ActorGreet(c) \/ ActorExec(c)))

----------------------------------------------------------------------------
\* Properties.

\* A passive accept that a spawned task still has to finish or to install.
PasvOutstanding ==
    \E t \in DOMAIN tasks :
        tasks[t].owner = "task" /\ tasks[t].st \in {"listening", "accepted"}

\* The line's keyword has no arm in the dispatcher that runs.
UnknownKeyword ==
    /\ cmd.kw # ""
    /\ IF dispatcher = "execute_command"
         THEN cmd.kw \notin ExecuteCommandKeywords
         ELSE cmd.kw \notin HandlerKeywords

\* C1: while the passive listener still waits for a client, the PASV handler
\* has returned: the control loop is never inside the PASV handler with the
\* accept outstanding.
C1_PasvReturnsBeforeAccept ==
    \A t \in DOMAIN tasks :
        tasks[t].st = "listening" => ~(pc = "exec" /\ cmd.kw = "PASV")

\* C2: a data-bearing command that finds the Data Connection absent while a
\* passive accept is still outstanding does not end there (with a failure
\* reply or otherwise): its handler is still running, waiting for the install.
C2_WaitsForPassiveInstall ==
    (dcAbsent /\ cmd.kw \in DataBearing /\ PasvOutstanding) => pc = "exec"

\* C3: a data-bearing handler that finds no Data Connection returns to the
\* control loop: the connection task does not end in that handler.
C3_AbsentDataConnectionReturns ==
    (dcAbsent /\ cmd.kw \in DataBearing /\ pc = "crashed") => cause = "control_io"

\* C4: every data socket that was installed in the session and is still open
\* is the one the session references: installing a new Data Connection
\* released the previous one.
C4_PreviousReleased ==
    \A s \in DOMAIN sock :
        (Live(s) /\ s \notin HeldByTask) => data_connection = s

C4_Witness ==
    \E s \in DOMAIN sock :
        /\ sock[s].st = "closed"
        /\ data_connection \notin {0, s}
        /\ Live(data_connection)

\* C5: no data socket is used by more than one data-bearing command.
C5_ConsumedOnce ==
    \A s \in DOMAIN sock : sock[s].uses <= 1

\* C6: when a handler that started a transfer on a data socket has returned,
\* that socket has been shut down.
C6_ShutDownOnReturn ==
    (pc = "respond" /\ using # 0) => sock[using].st \in {"shutdown", "closed"}

\* C7: the loop reads the next control line only when no handler is running,
\* the handler of the previous line has returned, and the status it returned,
\* if any, has been written on the control channel.
C7_Sequential ==
    [][nread' = nread + 1 =>
        /\ pc = "read"
        /\ hpc = "idle"
        /\ nread > 0 =>
            /\ result.kind # "none"
            /\ (result.kind = "Ok" /\ result.code # 0) =>
                   (replied /\ ctrl[Len(ctrl)] = result.code)]_vars

C7_Witness ==
    /\ nread = 2
    /\ pc = "dispatch"
    /\ Len(ctrl) >= 2

\* C8: the connection task ends only on QUIT, on an empty line or on an I/O
\* error of the control socket.
C8_EndsOnlyOnQuitEmptyOrControlIo ==
    Ended => cause \in {"quit", "empty_line", "control_io"}

\* C9: when the handler of a line returned an error, the loop has written a
\* failure status for that line by the time it reads again.
C9_ErrorBecomesReply ==
    (pc = "read" /\ result.kind = "Err") => (replied /\ ctrl[Len(ctrl)] >= 400)

\* C10: a line with an unknown keyword is answered CmdNotImplemented and the
\* loop goes back to reading; the connection ends there only if the control
\* socket itself fails.
C10_UnknownKeyword502 ==
    UnknownKeyword =>
        \/ pc = "dispatch"
        \/ pc = "respond" /\ result = OkSome(CmdNotImplemented)
        \/ pc = "read" /\ replied /\ ctrl[Len(ctrl)] = CmdNotImplemented
        \/ pc = "crashed" /\ cause = "control_io"

C10_Witness ==
    /\ UnknownKeyword
    /\ pc = "read"
    /\ replied
    /\ ctrl[Len(ctrl)] = CmdNotImplemented
    /\ nread < MaxLines

----------------------------------------------------------------------------

\* The line has the argument list its keyword's handler expects.
WellShaped(l) == HandlerTryFrom(l) /\ l.wf

\* The line's keyword is one the running dispatcher supports, with an
\* argument list of the wrong shape.
InvalidShape ==
    /\ cmd.kw # ""
    /\ ~UnknownKeyword
    /\ ~WellShaped(cmd)

\* The last reply code on the control channel.
LastReply == IF ctrl = <<>> THEN 0 ELSE ctrl[Len(ctrl)]

\* C11: a line with a supported keyword and an invalid argument shape is
\* answered CmdNotImplemented without its handler starting a transfer or
\* changing the cwd, and the loop goes back to reading; the connection ends
\* there only if the control socket itself fails.
C11_InvalidShape502 ==
    InvalidShape =>
        /\ cwd = atRead.cwd
        /\ using = 0
        /\ \/ pc = "dispatch"
           \/ pc = "respond" /\ result = OkSome(CmdNotImplemented)
           \/ pc = "read" /\ replied /\ LastReply = CmdNotImplemented
           \/ pc = "crashed" /\ cause = "control_io"

\* C12: a CWD to a path that names no existing directory leaves the session's
\* cwd as it was when the line was read, does not end the connection task,
\* and has been answered with a failure reply by the time the loop reads again.
C12_FailedCwdKeepsCwd ==
    (cmd.kw = "CWD" /\ cmd.arg \notin Dirs) =>
        /\ cwd = atRead.cwd
        /\ pc = "crashed" => cause = "control_io"
        /\ pc = "read" => (replied /\ LastReply >= 400)

\* C13: the path in the PathCreated reply of PWD is the session's cwd.
C13_PwdReportsSessionCwd ==
    (cmd.kw = "PWD" /\ result = OkSome(PathCreated)) => reply_path = cwd

\* C14: a data-bearing command whose handler finds no Data Connection is
\* answered CantOpenDataConnection, and nothing else, and the loop goes back
\* to reading; the connection ends there only if the control socket fails.
C14_AbsentDataConnection425 ==
    (dcAbsent /\ cmd.kw \in DataBearing) =>
        \/ pc = "respond" /\ result = OkSome(CantOpenDataConn)
        \/ pc = "read" /\ replied /\ LastReply = CantOpenDataConn
        \/ pc = "crashed" /\ cause = "control_io"

\* C15: once the loop has read a line with no token, the connection task has
\* ended by returning: it is closed, without a panic and without reading on.
C15_EmptyLineEndsNormally ==
    (nread > 0 /\ ~CmdParserOk(cmd)) => pc = "closed"

\* The QUIT handler has written ServiceClosingControlConnection.
QuitReplied == \E i \in DOMAIN ctrl : ctrl[i] = ServiceClosingControlConn

C17_GreetingFirst ==
    (nread > 0 \/ ctrl # <<>>) => (ctrl # <<>> /\ ctrl[1] = ServiceReadyUser)

C17_Witness ==
    /\ nread = 1
    /\ pc = "dispatch"
    /\ ctrl = <<ServiceReadyUser>>

\* The replies written on the control channel since the line was read.
RepliesOfLine == SubSeq(ctrl, atRead.nctrl + 1, Len(ctrl))

\* Retr::run handles the RETR of this line, and its File::open failed.
RetrOpenFailed ==
    /\ dispatcher = "Command"
    /\ cmd.kw = "RETR"
    /\ source.opened = "failed"

RetrTransfer == cmd.kw = "RETR" /\ using # 0

\* C19: for a RETR that transfers, 125 is the first reply of the line and is
\* written before the transfer; the only other reply is 226, which the
\* handler returns after the whole file has been sent and the data socket
\* shut down.
C19_Retr125Then226 ==
    RetrTransfer =>
        /\ pc = "exec" => RepliesOfLine = <<DataOpenTransfer>>
        /\ pc = "respond" => RepliesOfLine = <<DataOpenTransfer>>
        /\ (pc = "respond" /\ result.kind = "Ok") =>
               /\ result = OkSome(ClosingDataConn)
               /\ sock[using].st \in {"shutdown", "closed"}
        /\ (pc = "read" /\ result.kind = "Ok") =>
               RepliesOfLine = <<DataOpenTransfer, ClosingDataConn>>
        /\ (pc = "read" /\ result.kind # "Ok") => RepliesOfLine = <<DataOpenTransfer>>

\* C20: when a RETR has returned successfully, the bytes it wrote on the data
\* socket (a socket no earlier transfer wrote on) are the file's content
\* followed by one NUL.
C20_RetrBytes ==
    (RetrTransfer /\ sock[using].uses = 1 /\ pc = "respond" /\ result.kind = "Ok") =>
        sock[using].out = source.bytes \o <<"NUL">>

\* C21: when a STOR that is the first to read its data socket returns its
\* status, the file it created holds exactly the bytes the client sent on
\* that socket before closing it.
C21_StorFileIsUpload ==
    (/\ cmd.kw = "STOR"
     /\ pc = "respond"
     /\ result.kind = "Ok"
     /\ using # 0
     /\ sock[using].uses = 1)
        => file = Created(sock[using].inp)

\* A LIST or MLSD of this line found a Data Connection and lists on it.
ListingTransfer == cmd.kw \in {"LIST", "MLSD"} /\ using # 0

\* C22: for a LIST or MLSD that finds a Data Connection, 150 is the first
\* reply of the line and is written before anything goes to the data socket;
\* the only other reply is 226, returned after the listing is complete and
\* the data socket shut down.
C22_Listing150Then226 ==
    ListingTransfer =>
        /\ pc \in {"exec", "respond"} => RepliesOfLine = <<FileStatusOk>>
        /\ (pc = "exec" /\ sock[using].uses = 1) => sock[using].out = <<>>
        /\ (pc = "respond" /\ result.kind = "Ok") =>
               /\ result = OkSome(ClosingDataConn)
               /\ sock[using].st \in {"shutdown", "closed"}
        /\ (pc = "read" /\ result.kind = "Ok") =>
               RepliesOfLine = <<FileStatusOk, ClosingDataConn>>

\* A LIST or MLSD of this line has returned its status after listing on a
\* data socket no earlier transfer used.
ListingDone ==
    /\ ListingTransfer
    /\ sock[using].uses = 1
    /\ pc = "respond"
    /\ result.kind = "Ok"

C24_UserPass230 ==
    cmd.kw \in {"USER", "PASS"} =>
        /\ pc = "respond" => result = OkSome(UserLoggedIn)
        /\ pc = "read" => RepliesOfLine = <<UserLoggedIn>>

\* The PORT of this line returned Ok(Some(StatusCode::Ok)).
PortReturned ==
    /\ cmd.kw = "PORT"
    /\ result = OkSome(Ok)
    /\ pc \in {"respond", "read"}

\* C25: the step in which a PORT handler returns its 200 is the step that
\* installs the freshly connected socket as the session's Data Connection;
\* so from the handler's return on, before and after the loop writes the 200,
\* the session holds an open Data Connection that no transfer has used.
C25_PortInstallsBeforeReply ==
    /\ [](PortReturned =>
            /\ data_connection # 0
            /\ sock[data_connection].st = "open"
            /\ sock[data_connection].uses = 0)
    /\ [][(cmd.kw = "PORT" /\ pc = "dispatch" /\ pc' = "respond" /\ result' = OkSome(Ok)) =>
            /\ Len(sock') = Len(sock) + 1
            /\ data_connection' = Len(sock')
            /\ sock'[data_connection'].st = "open"]_vars

\* The 200 of a PORT has been written and the loop is ready for the next line.
C25_Witness ==
    /\ PortReturned
    /\ pc = "read"
    /\ replied
    /\ LastReply = Ok
    /\ nread < MaxLines
    /\ data_connection # 0
    /\ sock[data_connection].st = "open"

\* C26: for every port a passive listener can have, the two numbers PASV
\* puts in the 227 reply are each in 0..255 and give the port back as
\* high * 256 + low; written in decimal and parsed the way PORT parses its
\* fields they are accepted, and PORT's decoding of them is the same port.
C26_PortRoundTrip ==
    /\ enc.step \in {"split", "replied", "parsed", "decoded", "panicked"} =>
           /\ enc.high \in 0 .. 255
           /\ enc.low \in 0 .. 255
           /\ enc.high * 256 + enc.low = enc.port
    /\ enc.step # "panicked"
    /\ enc.step = "decoded" => enc.decoded = enc.port

\* The largest port went through the reply and came back.
C26_Witness ==
    /\ enc.step = "decoded"
    /\ enc.port = MaxPort
    /\ enc.high = 255
    /\ enc.low = 255
    /\ enc.decoded = MaxPort

\* C27: once the operator's interrupt has been raised, listen accepts no
\* further client: no connection task is added.
C27_NoAcceptAfterSignal ==
    [][signal => Len(actors') = Len(actors)]_vars

\* C28: when listen has returned after the interrupt, every connection task
\* it spawned has finished.
C28_ListenReturnsWhenTasksDone ==
    (signal /\ listening = "returned") => \A c \in DOMAIN actors : Finished(c)

\* C29: after the interrupt has been raised, every connection task
\* eventually finishes, whatever its client does (a task that has read all
\* the lines the model sends it is left out, so that a task found running
\* forever is one whose client could still send).
C29_TasksEndAfterSignal ==
    signal ~> (\A c \in DOMAIN actors : Finished(c) \/ actors[c].n = MaxActorLines)

\* C30: no command of one connection fails because of what another
\* connection is doing: a PASV never dies of the passive port being held by
\* another connection's listener.
C30_NoCrossFailure ==
    \A c \in DOMAIN actors : actors[c].cause # "addr_in_use"

\* Whitespace, as the claims about tokens mean it.
Blank == {"SP", "TAB", "FF"}

\* A token is not empty and holds no whitespace.
CleanToken(t) == t # <<>> /\ \A i \in DOMAIN t : t[i] \notin Blank

\* C31: for a line cmd_parser accepts, the keyword and every argument are
\* non-empty and free of whitespace, and parsing the keyword and arguments
\* joined with single spaces succeeds with the same keyword and the same
\* arguments in the same order.
C31_TokenizationIdempotent ==
    /\ tok.step \in {"parsed", "joined", "reparsed"} =>
           /\ CleanToken(tok.kw)
           /\ \A i \in DOMAIN tok.args : CleanToken(tok.args[i])
    /\ tok.step = "reparsed" =>
           /\ tok.ok2
           /\ tok.kw2 = tok.kw
           /\ tok.args2 = tok.args

\* C31 as stated: every non-empty line is parsed into a keyword and
\* arguments, and the re-joined tokens parse to the same keyword and arguments.
C31_EveryNonEmptyLine ==
    /\ tok.step # "failed"
    /\ tok.step = "reparsed" => (tok.ok2 /\ tok.kw2 = tok.kw /\ tok.args2 = tok.args)

\* A line with a tab and two spaces between its tokens has gone through.
C31_Witness ==
    /\ tok.step = "reparsed"
    /\ tok.line = <<"U", "TAB", "SP", "a">>
    /\ tok.args = << <<"a">> >>
    /\ tok.joined = <<"U", "SP", "a">>
    /\ tok.args2 = tok.args


----------------------------------------------------------------------------
\* The first n elements of a text.
Prefix(text, n) == SubSeq(text, 1, IF n < Len(text) THEN n ELSE Len(text))

\* The text opens with the digits of the variant's code() and then sep.
OpensWith(r, sep) ==
    Prefix(r.text, Len(Digits(CodeOf(r.variant))) + 1) = Digits(CodeOf(r.variant)) \o <<sep>>

HandlerVariants ==
    {"Ok", "DataOpenTransfer", "ClosingDataConn", "EnteringPassiveMode", "UserLoggedIn",
     "CmdNotImplemented", "PathCreated", "ServiceReadyUser", "FileActionPending",
     "FileActionNotTaken"}

\* C33: the rendered text of a reply a handler returns or writes, Ok
\* included, ends with the line terminator.
C33_ReplyEndsWithNewline ==
    (reply.step = "rendered" /\ reply.variant \in HandlerVariants) =>
        reply.text[Len(reply.text)] = "LF"

----------------------------------------------------------------------------
\* C34: while a handler reads or writes the file or the data socket the
\* session lock is free, so the passive task can take it.
C34_LockFreeDuringTransfer ==
    (pc = "exec" /\ hpc = "xfer") => session_lock = "none"

----------------------------------------------------------------------------
\* C35: a line whose keyword has a handler and whose arguments that handler
\* accepts is constructed by Command::try_from, never sent down the
\* unknown-keyword path.
C35_EveryHandlerKeywordListed ==
    (dispatcher = "Command" /\ pc = "dispatch" /\ cmd.kw \in HandlerKeywords
        /\ HandlerTryFrom(cmd)) => CommandTryFrom(cmd)

----------------------------------------------------------------------------
\* Type::run or Rest::run is about to handle the line.
TypeOrRest == Running /\ cmd.kw \in {"TYPE", "REST"}

----------------------------------------------------------------------------
\* The sockets the passive tasks accepted.
TaskSockets == { tasks[t].sock : t \in DOMAIN tasks } \ {0}

\* The session's Data Connection was installed for a command issued after
\* the PASV of task t, and task t accepted its socket after that: it is the
\* socket of a later PASV, or the socket of a PORT that followed the one PASV.
NewerLink(t) ==
    /\ data_connection # 0
    /\ tasks[t].sock > data_connection
    /\ \/ \E u \in DOMAIN tasks : u > t /\ tasks[u].sock = data_connection
       \/ /\ Len(tasks) = 1
          /\ data_connection \notin TaskSockets
          /\ Len(ctrl) >= 3
          /\ SubSeq(ctrl, 1, 3) = <<ServiceReadyUser, EnteringPassiveMode, Ok>>

\* C37: the task of an earlier PASV that accepts a connection after a later
\* PASV or PORT has installed the Data Connection does not replace it.
C37_StaleAcceptKeepsNewerLink ==
    [][\A t \in DOMAIN tasks :
          (tasks[t].st = "accepted" /\ tasks'[t].st = "done" /\ NewerLink(t))
              => data_connection' = data_connection]_vars

----------------------------------------------------------------------------
\* C38: a passive task that has accepted a socket eventually takes the
\* session lock and installs the socket as the Data Connection, handlers that
\* run a transfer returning.
C38_AcceptedTaskInstalls ==
    \A t \in 1 .. MaxLines :
        (t \in DOMAIN tasks /\ tasks[t].st = "accepted")
            ~> (t \in DOMAIN tasks /\ tasks[t].st = "done")

\* A transfer ran on the socket PORT installed, and the passive task, which
\* could not install while the handler held the lock, has installed since.
C38_Witness ==
    /\ dispatcher = "Command"
    /\ Len(tasks) = 1
    /\ tasks[1].st = "done"
    /\ data_connection = tasks[1].sock
    /\ using # 0
    /\ using # data_connection
    /\ sock[using].uses = 1
    /\ session_lock = "none"

----------------------------------------------------------------------------
\* The number of 227 replies among the first n replies on the control channel.
RECURSIVE PassiveReplies(_)
PassiveReplies(n) ==
    IF n = 0 THEN 0
    ELSE PassiveReplies(n - 1) + (IF ctrl[n] = EnteringPassiveMode THEN 1 ELSE 0)

\* C39: every 227 reply on the control channel has its listener, bound by
\* the time the reply is written; a listener that has accepted nothing is
\* open, whatever the control loop is doing, so that a client can connect to
\* it; and it stays open until its one connection is accepted.
C39_ListenerOpenFrom227 ==
    /\ [](dispatcher = "Command" =>
            /\ PassiveReplies(Len(ctrl)) = Len(tasks)
            /\ \A t \in DOMAIN tasks :
                   tasks[t].st = "listening" => ENABLED TaskAccept(t))
    /\ [][dispatcher = "Command" =>
            \A t \in DOMAIN tasks :
                tasks[t].st = "listening" =>
                    \/ tasks'[t].st = "listening"
                    \/ tasks'[t].st = "accepted" /\ tasks'[t].sock = Len(sock) + 1]_vars

\* The control loop has ended and the listener of its PASV has since
\* accepted the client's connection.
C39_Witness ==
    /\ dispatcher = "Command"
    /\ Ended
    /\ ctrl = <<ServiceReadyUser, EnteringPassiveMode>>
    /\ Len(tasks) = 1
    /\ tasks[1].st = "accepted"
    /\ sock[tasks[1].sock].st = "open"

----------------------------------------------------------------------------
\* Connection task c fails in this step.
Fails(c) == actors[c].pc # "crashed" /\ actors'[c].pc = "crashed"

\* C40: the step in which a connection task fails leaves listen's loop and
\* every other task as they were, and with a failed task around the loop
\* still accepts and the other tasks still take their next step.
C40_TaskFailureContained ==
    /\ [][\A c \in DOMAIN actors :
            Fails(c) =>
                /\ listening' = listening
                /\ \A d \in DOMAIN actors \ {c} : actors'[d] = actors[d]]_vars
    /\ []((\E c \in DOMAIN actors : actors[c].pc = "crashed") =>
            /\ (listening = "accepting" /\ Len(actors) < MaxConns) => ENABLED Accept
            /\ \A d \in DOMAIN actors :
                   /\ actors[d].pc = "greet" => ENABLED ActorGreet(d)
                   /\ (actors[d].pc = "read" /\ actors[d].n < MaxActorLines)
                          => ENABLED ActorRead(d)
                   /\ actors[d].pc = "dispatch" => ENABLED ActorExec(d))

\* The first connection task has failed; the loop is accepting and the
\* second task has been greeted, has had a command answered and is reading.
C40_Witness ==
    /\ Len(actors) = 2
    /\ actors[1].pc = "crashed"
    /\ actors[2].pc = "read"
    /\ actors[2].n = 1
    /\ listening = "accepting"
====
